---------------------------- MODULE Spec2Model ----------------------------
(***************************************************************************)
(* Model of the roolz compiler front end:                                  *)
(*   - compiler/readchars.rs : ReadChars, the incremental UTF-8 decoder    *)
(*   - compiler/parser.rs    : Parser, the stack-driven lexer-parser       *)
(*                                                                         *)
(* Characters are Unicode scalar values (integers), bytes are 0..255.      *)
(* One step of the model is one call of self.inner.next() in               *)
(* ReadChars::next together with everything that runs until the next such  *)
(* call (validation of the scratch buffer, return of the item, and in the  *)
(* parser the whole body of the for loop for that item).                   *)
(*                                                                         *)
(* Two specifications:                                                     *)
(*   SpecDec : ReadChars iterated by a consumer over a fixed byte source   *)
(*   Spec    : Parser::parse over a reader whose every read is drawn       *)
(*             nondeterministically (byte, I/O error, or end of input)     *)
(*   SpecWatch : bin/roolz.rs watch_files, its worker thread, the notify   *)
(*             watcher and the shutdown signal                             *)
(***************************************************************************)
EXTENDS Integers, Sequences, FiniteSets, TLC

VARIABLES
    source,         \* SpecDec: the reader's content, a sequence of read outcomes
    pos,            \* number of read outcomes pulled from the reader so far
    bytes,          \* ReadChars::next: the part bytes[..i] of the scratch buffer written by the current/last call
    cur,            \* what the last call of ReadChars::next returned ("pending": the call is still pulling)
    items,          \* SpecDec: the items the iterator has yielded so far
    scalars,        \* SpecDec: the scalar values whose encoding the source is (<<>> for raw byte sources)
    line,           \* Parser.line
    column,         \* Parser.column
    state_stack,    \* Parser.state_stack, bottom first
    string_buffer,  \* Parser.string_buffer
    pc,             \* Parser::parse: "run", "done" (returned), "panic" (unwound by unimplemented!())
    result,         \* the value Parser::parse returned
    seen,           \* history: newlines consumed and characters consumed since the last one
    gram,           \* history: where the consumed characters stand in the grammar of section 4.2 of the specification
    watch           \* SpecWatch: the state of one watch_files call (task, worker thread, channels)

vars == <<source, pos, bytes, cur, items, scalars, line, column, state_stack,
          string_buffer, pc, result, seen, gram, watch>>

decVars    == <<source, pos, bytes, cur, items, scalars>>
parserVars == <<line, column, state_stack, string_buffer, pc, result, seen, gram>>

---------------------------------------------------------------------------
(* Bounds *)

MaxLen   == 5      \* SpecDec: longest raw byte source
MaxChars == 3      \* SpecDec: longest sequence of encoded scalar values
MaxPulls == 7      \* Spec: most read outcomes other than end of input
MaxEvents == 3     \* SpecWatch: most events the watcher emits

---------------------------------------------------------------------------
(* Read outcomes *)

IOERR == 256       \* a read that fails with an io::Error (not Interrupted)
EOF   == 257       \* Bytes::next returns None

\* characters the grammar names
NL     == 10
SPACE  == 32
HASH   == 35
DOT    == 46
SEMI   == 59
UNDERS == 95
CH_p   == 112
CH_k   == 107
CH_g   == 103

---------------------------------------------------------------------------
(* str::from_utf8 and chars().next(), as used by ReadChars::next *)

IsCont(b) == b \in 128..191

Utf8Width(b) ==
    IF b < 128 THEN 1
    ELSE IF b \in 194..223 THEN 2
    ELSE IF b \in 224..239 THEN 3
    ELSE IF b \in 240..244 THEN 4
    ELSE 0

\* the range of the second byte, which excludes overlong forms, surrogates
\* and values above U+10FFFF
Utf8SecondOk(b0, b1) ==
    CASE b0 = 224 -> b1 \in 160..191
      [] b0 = 237 -> b1 \in 128..159
      [] b0 = 240 -> b1 \in 144..191
      [] b0 = 244 -> b1 \in 128..143
      [] OTHER    -> IsCont(b1)

RECURSIVE from_utf8(_)
from_utf8(bs) ==
    IF bs = <<>> THEN TRUE
    ELSE LET w == Utf8Width(bs[1]) IN
         /\ w > 0
         /\ Len(bs) >= w
         /\ (w >= 2 => Utf8SecondOk(bs[1], bs[2]))
         /\ \A j \in 3..w : IsCont(bs[j])
         /\ from_utf8(SubSeq(bs, w + 1, Len(bs)))

\* s.chars().next().unwrap() of a valid, non-empty str
first_char(bs) ==
    LET w == Utf8Width(bs[1]) IN
    CASE w = 1 -> bs[1]
      [] w = 2 -> (bs[1] % 32) * 64 + (bs[2] % 64)
      [] w = 3 -> (bs[1] % 16) * 4096 + (bs[2] % 64) * 64 + (bs[3] % 64)
      [] OTHER -> (bs[1] % 8) * 262144 + (bs[2] % 64) * 4096
                    + (bs[3] % 64) * 64 + (bs[4] % 64)

---------------------------------------------------------------------------
(* char::is_whitespace, char::is_alphabetic, char::is_alphanumeric.        *)
(* Exact for U+0000..U+00FF; above that only the White_Space code points   *)
(* are classified, every other character counts as neither.               *)

is_whitespace(c) ==
    \/ c \in 9..13
    \/ c \in {32, 133, 160, 5760, 8232, 8233, 8239, 8287, 12288}
    \/ c \in 8192..8202

is_alphabetic(c) ==
    \/ c \in 65..90
    \/ c \in 97..122
    \/ c \in {170, 181, 186}
    \/ c \in 192..214
    \/ c \in 216..246
    \/ c \in 248..255

is_numeric(c) ==
    \/ c \in 48..57
    \/ c \in {178, 179, 185, 188, 189, 190}

is_alphanumeric(c) == is_alphabetic(c) \/ is_numeric(c)

---------------------------------------------------------------------------
(* ReadChars *)

BytesLen == 4      \* let mut bytes = [0, 0, 0, 0]

Pending    == [kind |-> "pending"]
End        == [kind |-> "end"]
CharItem(c) == [kind |-> "char", ch |-> c]
IoErrItem   == [kind |-> "IoError"]
Utf8ErrItem == [kind |-> "Utf8Error"]

\* the scratch buffer at the start of this pull: a new call starts from an
\* empty one, a call in progress keeps what it has written
Scratch == IF cur.kind = "pending" THEN bytes ELSE <<>>

\* ReadChars::next giving up after three bytes (for i in 0..3)
NextItemMut(r) ==
    IF r = EOF THEN End
    ELSE IF r = IOERR THEN IoErrItem
    ELSE LET nb == Append(Scratch, r) IN
         IF from_utf8(nb) THEN CharItem(first_char(nb))
         ELSE IF Len(nb) = BytesLen - 1 THEN Utf8ErrItem
         ELSE Pending

\* what ReadChars::next does with one outcome r of self.inner.next()
NextItem(r) ==
    IF r = EOF THEN End
    ELSE IF r = IOERR THEN IoErrItem
    ELSE LET nb == Append(Scratch, r) IN
         IF from_utf8(nb) THEN CharItem(first_char(nb))
         ELSE IF Len(nb) = BytesLen THEN Utf8ErrItem
         ELSE Pending

ReadCharsNext(r) ==
    /\ cur' = NextItem(r)
    /\ bytes' = IF r \in {EOF, IOERR} THEN Scratch ELSE Append(Scratch, r)
    /\ pos' = IF r = EOF THEN pos ELSE pos + 1


---------------------------------------------------------------------------
(* Parser *)

ParserReads == {NL, SPACE, HASH, DOT, SEMI, 49, UNDERS, CH_p, CH_k, CH_g,
                195, 169, IOERR, EOF}

NoResult == [kind |-> "None"]
Ok       == [kind |-> "Ok"]

IoError(p, e)      == [kind |-> "IoError", pos |-> <<p.line, p.column>>, err |-> e]
ParseError(p, m, i) == [kind |-> "ParseError", pos |-> <<p.line, p.column>>,
                        msg |-> m, input |-> i]
InvalidState(p)    == [kind |-> "InvalidState", pos |-> <<p.line, p.column>>]

\* the seed without the Root marker at the bottom
ParserNewMut ==
    [line |-> 1, column |-> 0,
     state_stack |-> <<"Semi", "OptionalPkgNameDot", "PkgIdentifier",
                       "PkgG", "PkgK", "PkgP">>,
     string_buffer |-> <<>>]

\* Parser::new
ParserNew ==
    [line |-> 1, column |-> 0,
     state_stack |-> <<"Root", "Semi", "OptionalPkgNameDot", "PkgIdentifier",
                       "PkgG", "PkgK", "PkgP">>,
     string_buffer |-> <<>>]

Self == [line |-> line, column |-> column, state_stack |-> state_stack,
         string_buffer |-> string_buffer]

is_identifier_start(c) == is_alphabetic(c) \/ c = UNDERS

push(p, state) == [p EXCEPT !.state_stack = Append(@, state)]
pop(p)         == [p EXCEPT !.state_stack = SubSeq(@, 1, Len(@) - 1)]
peek(p)        == p.state_stack[Len(p.state_stack)]
Empty(p)       == p.state_stack = <<>>

\* how the body of the for loop leaves
Continue(p)  == [p |-> p, ctl |-> "next",   res |-> NoResult]
Return(p, r) == [p |-> p, ctl |-> "return", res |-> r]
Panic(p)     == [p |-> p, ctl |-> "panic",  res |-> NoResult]

parse_err(p, m, i) == Return(p, ParseError(p, m, i))

\* continue 'check_char: the same character is dispatched again
Again(p) == [p |-> p, ctl |-> "again", res |-> NoResult]

\* a whitespace character moving the accumulation on (pops PkgIdentifier)
OnWhitespaceMut(p, c) ==
    IF c = NL THEN
        LET q == [p EXCEPT !.column = 1, !.line = p.line + 1] IN
        IF Empty(q) THEN Return(q, InvalidState(q))
        ELSE IF peek(q) = "Comment" THEN Continue(pop(q))
        ELSE Continue(q)
    ELSE IF ~Empty(p) /\ peek(p) = "PkgIdentifier" /\ p.string_buffer # <<>>
         THEN Continue(pop(p))
    ELSE Continue(p)

\* if c.is_whitespace() { .. continue 'next_char; }
OnWhitespace(p, c) ==
    IF c = NL THEN
        LET q == [p EXCEPT !.column = 1, !.line = p.line + 1] IN
        IF Empty(q) THEN Return(q, InvalidState(q))
        ELSE IF peek(q) = "Comment" THEN Continue(pop(q))
        ELSE Continue(q)
    ELSE Continue(p)

\* a '#' inside a comment opening a nested comment
OnCommentMut(p, c) ==
    IF c = HASH THEN Continue(push(p, "Comment")) ELSE Continue(p)

\* State::Comment => { /* ignored */ }
OnComment(p, c) == Continue(p)

\* State::PkgP
OnPkgP(p, c) ==
    IF c = HASH THEN Continue(push(p, "Comment"))     \* transitions_to_comment
    ELSE IF c = CH_p THEN Continue(pop(p))
    ELSE parse_err(p, "expecting start of package", <<c>>)

\* State::PkgK
OnPkgK(p, c) ==
    IF c = CH_k THEN Continue(pop(p))
    ELSE parse_err(p, "expecting start of package", <<CH_p, c>>)

\* State::PkgG
OnPkgG(p, c) ==
    IF c = CH_g THEN Continue(pop(p))
    ELSE parse_err(p, "expecting start of package", <<CH_p, CH_k, c>>)

\* State::PkgIdentifier
OnPkgIdentifier(p, c) ==
    IF p.string_buffer = <<>> THEN
        IF is_identifier_start(c)
        THEN Continue([p EXCEPT !.string_buffer = Append(@, c)])
        ELSE parse_err(p, "expecting identifier", <<c>>)
    ELSE
        IF is_alphanumeric(c)
        THEN Continue([p EXCEPT !.string_buffer = Append(@, c)])
        ELSE Again(pop(p))

\* a further dot re-arming the optional dot as well as the identifier
OnOptionalPkgNameDotMut(p, c) ==
    IF c = DOT
    THEN Continue(push(push([p EXCEPT !.string_buffer = Append(@, c)],
                            "OptionalPkgNameDot"), "PkgIdentifier"))
    ELSE Again(pop(p))

\* State::OptionalPkgNameDot
OnOptionalPkgNameDot(p, c) ==
    IF c = DOT
    THEN Continue(push([p EXCEPT !.string_buffer = Append(@, c)],
                       "PkgIdentifier"))
    ELSE Again(pop(p))

\* State::Semi
OnSemi(p, c) ==
    IF c = SEMI THEN Continue(pop(p))
    ELSE parse_err(p, "expecting \";\"", <<c>>)

\* one pass of the 'check_char loop: the whitespace test, then
\* match self.peek()?
Dispatch(p, c) ==
    IF is_whitespace(c) THEN OnWhitespace(p, c)
    ELSE IF Empty(p) THEN Return(p, InvalidState(p))
    ELSE CASE peek(p) = "Comment" -> OnComment(p, c)
           [] peek(p) = "PkgP" -> OnPkgP(p, c)
           [] peek(p) = "PkgK" -> OnPkgK(p, c)
           [] peek(p) = "PkgG" -> OnPkgG(p, c)
           [] peek(p) = "PkgIdentifier" -> OnPkgIdentifier(p, c)
           [] peek(p) = "OptionalPkgNameDot" -> OnOptionalPkgNameDot(p, c)
           [] peek(p) = "Semi" -> OnSemi(p, c)
           [] OTHER -> Panic(p)      \* _ => unimplemented!()

\* the 'check_char loop of parse_now for one character c
RECURSIVE check_char(_, _)
check_char(p, c) ==
    LET o == Dispatch(p, c) IN
    IF o.ctl = "again" THEN check_char(o.p, c) ELSE o

\* the end-of-input test without the comparison with State::Root
EndOfInputMut(p) ==
    IF Empty(p) THEN Return(p, InvalidState(p))
    ELSE Return(pop(p), Ok)

\* after the for loop: if let State::Root = self.pop()?
EndOfInput(p) ==
    IF Empty(p) THEN Return(p, InvalidState(p))
    ELSE IF peek(p) = "Root" THEN Return(pop(p), Ok)
    ELSE parse_err(pop(p), "Unexpected end of input", <<>>)

---------------------------------------------------------------------------
(* History of the consumed characters *)

\* The statement grammar of the specification, read with a comment allowed
\* wherever whitespace is: st is the place in the statement, inC tells that a
\* comment is open, plain tells that so far whitespace and comments occurred
\* only where the narrow reading allows them (comments before the keyword,
\* whitespace before the keyword, between keyword and identifier, after ';').
GramInit == [st |-> "pre", inC |-> FALSE, plain |-> TRUE, kw |-> "pending"]

\* kw tells how the keyword was written: "ok" once p, k, g came adjacent and
\* were followed by a separator, "bad" once they did not
GramDead(g) == [st |-> "dead", inC |-> FALSE, plain |-> FALSE,
                kw |-> IF g.kw = "pending" THEN "bad" ELSE g.kw]

GramStep(g, c) ==
    IF g.st = "dead" THEN g
    ELSE IF g.inC THEN (IF c = NL THEN [g EXCEPT !.inC = FALSE] ELSE g)
    ELSE IF c = HASH THEN
        CASE g.st = "pre" -> [g EXCEPT !.inC = TRUE]
          [] g.st \in {"pkg", "sep"} ->
                [st |-> "sep", inC |-> TRUE, plain |-> FALSE, kw |-> "ok"]
          [] g.st \in {"id", "idws"} ->
                [g EXCEPT !.st = "idws", !.inC = TRUE, !.plain = FALSE]
          [] g.st \in {"dot", "end"} -> [g EXCEPT !.inC = TRUE, !.plain = FALSE]
          [] OTHER -> GramDead(g)
    ELSE IF is_whitespace(c) THEN
        CASE g.st \in {"pre", "end"} -> g
          [] g.st \in {"pkg", "sep"} -> [g EXCEPT !.st = "sep", !.kw = "ok"]
          [] g.st \in {"id", "idws"} -> [g EXCEPT !.st = "idws", !.plain = FALSE]
          [] g.st = "dot" -> [g EXCEPT !.plain = FALSE]
          [] OTHER -> GramDead(g)
    ELSE
        CASE g.st = "pre" /\ c = CH_p -> [g EXCEPT !.st = "p"]
          [] g.st = "p"   /\ c = CH_k -> [g EXCEPT !.st = "pk"]
          [] g.st = "pk"  /\ c = CH_g -> [g EXCEPT !.st = "pkg"]
          [] g.st \in {"sep", "dot"} /\ (is_alphabetic(c) \/ c = UNDERS)
                -> [g EXCEPT !.st = "id"]
          [] g.st = "id" /\ is_alphanumeric(c) -> g
          [] g.st \in {"id", "idws"} /\ c = DOT  -> [g EXCEPT !.st = "dot"]
          [] g.st \in {"id", "idws"} /\ c = SEMI -> [g EXCEPT !.st = "end"]
          [] OTHER -> GramDead(g)

GramAccepts(g) == g.st = "end" /\ ~g.inC

\* k newlines consumed, m characters consumed since the last of them
SeenInit == [k |-> 0, m |-> 0]
SeenStep(s, c) == IF c = NL THEN [k |-> s.k + 1, m |-> 0]
                  ELSE [s EXCEPT !.m = @ + 1]

---------------------------------------------------------------------------
(* Spec: Parser::parse *)

\* watch_files before its first poll
WatchInit ==
    [task |-> "start",      \* where the async fn stands
     thread |-> "none",     \* where the worker thread stands
     held |-> "none",       \* what sync_rx.recv() handed the worker
     sig |-> FALSE,         \* sig_handler is ready
     watcher |-> "none",    \* notify watcher: none, alive, dropped
     syncOpen |-> TRUE,     \* the std channel still has a sender
     syncQ |-> 0,           \* events queued in the std channel
     rx |-> "none",         \* receiver of the tokio channel: none, alive, dropped
     asyncQ |-> <<>>,       \* values queued in the tokio channel
     events |-> 0,          \* events emitted so far
     handle |-> FALSE,      \* join_handle is Some
     result |-> "none"]     \* result of the select!

Init ==
    /\ watch = WatchInit
    /\ source = <<>> /\ scalars = <<>> /\ items = <<>>
    /\ pos = 0 /\ bytes = <<>> /\ cur = Pending
    /\ line = ParserNew.line
    /\ column = ParserNew.column
    /\ state_stack = ParserNew.state_stack
    /\ string_buffer = ParserNew.string_buffer
    /\ pc = "run"
    /\ result = NoResult
    /\ seen = SeenInit
    /\ gram = GramInit

Pull(r) ==
    /\ pc = "run"
    /\ r # EOF => pos < MaxPulls
    /\ ReadCharsNext(r)
    /\ UNCHANGED <<source, scalars, items, watch>>

\* a syntax error that is recorded while the loop goes on
LeaveMut(o) ==
    /\ line' = o.p.line
    /\ column' = o.p.column
    /\ state_stack' = o.p.state_stack
    /\ string_buffer' = o.p.string_buffer
    /\ pc' = CASE o.ctl = "next" -> "run"
               [] o.ctl = "return" /\ o.res.kind = "ParseError"
                    /\ o.res.msg # "Unexpected end of input" -> "run"
               [] o.ctl = "return" -> "done"
               [] OTHER -> "panic"
    /\ result' = o.res

\* the for loop body or the code after the loop hands the parser over
Leave(o) ==
    /\ line' = o.p.line
    /\ column' = o.p.column
    /\ state_stack' = o.p.state_stack
    /\ string_buffer' = o.p.string_buffer
    /\ pc' = CASE o.ctl = "next" -> "run"
               [] o.ctl = "return" -> "done"
               [] OTHER -> "panic"
    /\ result' = o.res

\* ReadChars::next pulls a byte that does not complete a character
ReadByte ==
    \E r \in ParserReads :
        /\ NextItem(r) = Pending
        /\ Pull(r)
        /\ UNCHANGED parserVars

\* the for loop body for a decoded character
ParseChar ==
    \E r \in ParserReads :
        /\ NextItem(r).kind = "char"
        /\ Pull(r)
        /\ LET c == NextItem(r).ch
               o == check_char([Self EXCEPT !.column = @ + 1], c)
           IN /\ Leave(o)
              /\ seen' = IF o.ctl = "next" THEN SeenStep(seen, c) ELSE seen
              /\ gram' = GramStep(gram, c)

\* the for loop body for an error item: result.map_err(..)?
ParseDecodeError ==
    \E r \in ParserReads :
        /\ NextItem(r).kind \in {"IoError", "Utf8Error"}
        /\ Pull(r)
        /\ LET p == [Self EXCEPT !.column = @ + 1]
               e == IF NextItem(r).kind = "IoError" THEN "Io" ELSE "InvalidData"
           IN Leave(Return(p, IoError(p, e)))
        /\ gram' = GramDead(gram)
        /\ UNCHANGED seen

\* the iterator ends; the code after the for loop
ParseEndOfInput ==
    /\ NextItem(EOF) = End
    /\ Pull(EOF)
    /\ Leave(EndOfInput(Self))
    /\ gram' = IF Scratch # <<>> THEN GramDead(gram) ELSE gram
    /\ UNCHANGED seen

Next == ReadByte \/ ParseChar \/ ParseDecodeError \/ ParseEndOfInput

Spec == Init /\ [][Next]_vars

---------------------------------------------------------------------------
(* SpecDec: ReadChars as an iterator over a fixed source *)

DecReads == {97, 195, 169, 240, 159, 255, IOERR}

\* boundary values of the four encoded lengths
Scalars == {97, 127, 128, 233, 2047, 2048, 8364, 65535, 65536, 128512, 1114111}

SeqsUpTo(S, n) == UNION {[1..k -> S] : k \in 0..n}

\* the UTF-8 encoding of one scalar value
EncodeChar(c) ==
    IF c < 128 THEN <<c>>
    ELSE IF c < 2048 THEN <<192 + (c \div 64), 128 + (c % 64)>>
    ELSE IF c < 65536 THEN
        <<224 + (c \div 4096), 128 + ((c \div 64) % 64), 128 + (c % 64)>>
    ELSE <<240 + (c \div 262144), 128 + ((c \div 4096) % 64),
           128 + ((c \div 64) % 64), 128 + (c % 64)>>

RECURSIVE Encode(_)
Encode(cs) == IF cs = <<>> THEN <<>>
              ELSE EncodeChar(cs[1]) \o Encode(SubSeq(cs, 2, Len(cs)))

InitDec ==
    /\ \/ /\ scalars = <<>>
          /\ source \in SeqsUpTo(DecReads, MaxLen)
       \/ /\ scalars \in SeqsUpTo(Scalars, MaxChars) \ {<<>>}
          /\ source = Encode(scalars)
    /\ watch = WatchInit
    /\ items = <<>>
    /\ pos = 0 /\ bytes = <<>> /\ cur = Pending
    /\ line = ParserNew.line
    /\ column = ParserNew.column
    /\ state_stack = ParserNew.state_stack
    /\ string_buffer = ParserNew.string_buffer
    /\ pc = "run"
    /\ result = NoResult
    /\ seen = SeenInit
    /\ gram = GramInit

\* Bytes::next on the fixed source
InnerNext == IF pos < Len(source) THEN source[pos + 1] ELSE EOF

\* the consumer runs ReadChars::next up to its next pull, and keeps calling
\* it until it returns None
IterNext ==
    /\ cur.kind # "end"
    /\ ReadCharsNext(InnerNext)
    /\ items' = IF NextItem(InnerNext).kind \in {"pending", "end"} THEN items
                ELSE Append(items, NextItem(InnerNext))
    /\ UNCHANGED <<source, scalars, watch>>
    /\ UNCHANGED parserVars

NextDec == IterNext

SpecDec == InitDec /\ [][NextDec]_vars

---------------------------------------------------------------------------
(* SpecWatch: watch_files (bin/roolz.rs) *)

\* Ctrl-C: sig_handler becomes ready
SigFire ==
    /\ ~watch.sig
    /\ watch' = [watch EXCEPT !.sig = TRUE]
    /\ UNCHANGED <<decVars, parserVars>>

\* the notify watcher sends an event on sync_tx
WatchEvent ==
    /\ watch.watcher # "none" /\ watch.syncOpen
    /\ watch.events < MaxEvents
    /\ watch' = [watch EXCEPT !.syncQ = @ + 1, !.events = @ + 1]
    /\ UNCHANGED <<decVars, parserVars>>

\* the dropped watcher has released sync_tx: the std channel disconnects
CloseSync ==
    /\ watch.watcher = "dropped" /\ watch.syncOpen
    /\ watch' = [watch EXCEPT !.syncOpen = FALSE]
    /\ UNCHANGED <<decVars, parserVars>>

\* select! polls the ready sig_handler before the async block ever ran
TaskSigFirst ==
    /\ watch.task = "start" /\ watch.sig
    /\ watch' = [watch EXCEPT !.task = "join", !.result = "Ok"]
    /\ UNCHANGED <<decVars, parserVars>>

\* first poll of the async block: channels, watcher, worker thread, then
\* rx.recv().await
TaskSetup ==
    /\ watch.task = "start"
    /\ watch' = [watch EXCEPT !.task = "await", !.watcher = "alive",
                              !.rx = "alive", !.thread = "recv",
                              !.handle = TRUE]
    /\ UNCHANGED <<decVars, parserVars>>

\* notify::watcher(..)? or watcher.watch(..)? fails: the block ends before
\* the thread is spawned
TaskSetupFails ==
    /\ watch.task = "start"
    /\ watch' = [watch EXCEPT !.task = "join", !.result = "Err"]
    /\ UNCHANGED <<decVars, parserVars>>

\* the handler joining before the select! has dropped the async block
TaskSigMut ==
    /\ watch.task = "await" /\ watch.sig
    /\ watch' = [watch EXCEPT !.task = "join", !.result = "Ok"]
    /\ UNCHANGED <<decVars, parserVars>>

\* select! takes the sig_handler branch; the async block is dropped next
TaskSig ==
    /\ watch.task = "await" /\ watch.sig
    /\ watch' = [watch EXCEPT !.task = "dropRx", !.result = "Ok"]
    /\ UNCHANGED <<decVars, parserVars>>

\* while let Some(result) = rx.recv().await { match result? { .. } }
TaskRecv ==
    /\ watch.task = "await"
    /\ \/ watch.asyncQ # <<>>
       \/ watch.thread = "exit"
    /\ watch' =
         IF watch.asyncQ = <<>>
         THEN [watch EXCEPT !.task = "dropRx", !.result = "Ok"]
         ELSE IF watch.asyncQ[1] = "err"
         THEN [watch EXCEPT !.task = "dropRx", !.result = "Err",
                            !.asyncQ = SubSeq(@, 2, Len(@))]
         ELSE [watch EXCEPT !.asyncQ = SubSeq(@, 2, Len(@))]
    /\ UNCHANGED <<decVars, parserVars>>

\* the async block goes away: rx (declared last) is dropped first
TaskDropRx ==
    /\ watch.task = "dropRx"
    /\ watch' = [watch EXCEPT !.task = "dropWatcher", !.rx = "dropped",
                              !.asyncQ = <<>>]
    /\ UNCHANGED <<decVars, parserVars>>

\* then the watcher
TaskDropWatcher ==
    /\ watch.task = "dropWatcher"
    /\ watch' = [watch EXCEPT !.task = "join", !.watcher = "dropped"]
    /\ UNCHANGED <<decVars, parserVars>>

\* if let Some(join_handle) = join_handle.take() { join_handle.join() }
TaskJoin ==
    /\ watch.task = "join"
    /\ watch.handle => watch.thread = "exit"
    /\ watch' = [watch EXCEPT !.task = "returned"]
    /\ UNCHANGED <<decVars, parserVars>>

\* worker: sync_rx.recv() returns an event, or Err once the channel is
\* empty and disconnected
ThreadRecv ==
    /\ watch.thread = "recv"
    /\ watch.syncQ > 0 \/ ~watch.syncOpen
    /\ watch' = IF watch.syncQ > 0
                THEN [watch EXCEPT !.thread = "send", !.held = "ev",
                                   !.syncQ = @ - 1]
                ELSE [watch EXCEPT !.thread = "send", !.held = "err"]
    /\ UNCHANGED <<decVars, parserVars>>

\* worker: if let Err(_) = tx.send(..) { break; }
ThreadSend ==
    /\ watch.thread = "send"
    /\ watch' = IF watch.rx = "alive"
                THEN [watch EXCEPT !.thread = "recv", !.held = "none",
                                   !.asyncQ = Append(@, watch.held)]
                ELSE [watch EXCEPT !.thread = "exit", !.held = "none"]
    /\ UNCHANGED <<decVars, parserVars>>

NextWatch ==
    \/ SigFire \/ WatchEvent \/ CloseSync
    \/ TaskSigFirst \/ TaskSetup \/ TaskSetupFails
    \/ TaskSig \/ TaskRecv \/ TaskDropRx \/ TaskDropWatcher \/ TaskJoin
    \/ ThreadRecv \/ ThreadSend

\* The executor polls a woken task, select! does not pass over a ready
\* branch forever, the worker is an OS thread that gets to run, and a
\* dropped watcher releases its sender.
FairWatch ==
    /\ WF_vars(TaskSigFirst \/ TaskSetup \/ TaskSetupFails)
    /\ WF_vars(TaskSig)
    /\ WF_vars(TaskDropRx)
    /\ WF_vars(TaskDropWatcher)
    /\ WF_vars(TaskJoin)
    /\ WF_vars(ThreadRecv)
    /\ WF_vars(ThreadSend)
    /\ WF_vars(CloseSync)

SpecWatch == Init /\ [][NextWatch]_vars /\ FairWatch

---------------------------------------------------------------------------
(* Claims *)

\* C1: every input made of whitespace and '#' comment lines, then pkg,
\* whitespace, a dotted identifier, ';' and only whitespace is parsed with
\* success. Parse stops at the first failing character, so the claim says:
\* while the consumed characters are the beginning of such an input the parse
\* has neither failed nor aborted, and when the input ends as such an input
\* the result is success.
C1_PlainStatementAccepted ==
    (gram.st # "dead" /\ gram.plain) =>
        /\ pc # "panic"
        /\ pc = "done" => /\ cur.kind = "end"
                          /\ GramAccepts(gram) => result = Ok

\* C2: a '#' comment is accepted wherever whitespace is: the same as C1 for
\* the statement with whitespace and comments between any two tokens and
\* after the ';'.
C2_CommentAnywhereAccepted ==
    gram.st # "dead" =>
        /\ pc # "panic"
        /\ pc = "done" => /\ cur.kind = "end"
                          /\ GramAccepts(gram) => result = Ok

\* C3: parse always ends by returning success or a structured error; no
\* input makes it stop in another way.
C3_NeverAborts == pc # "panic"

\* C4: when the character at the start of a segment of the dotted identifier
\* (the first one, or one after a '.') is not alphabetic and not '_', parse
\* returns a syntax error at that character.
C4_SegmentStartChecked ==
    [][(/\ pc = "run"
        /\ gram.st \in {"sep", "dot"} /\ ~gram.inC
        /\ cur'.kind = "char"
        /\ ~is_whitespace(cur'.ch)
        /\ ~(is_alphabetic(cur'.ch) \/ cur'.ch = UNDERS))
       => (pc' = "done" /\ result'.kind = "ParseError")]_vars

\* C5: a failure on a character preceded by k newlines and m further
\* characters is reported at line k+1, column m+1.
C5_PositionAccurate ==
    (pc = "done" /\ cur.kind # "end" /\ result.kind \in {"ParseError", "IoError"})
        => result.pos = <<seen.k + 1, seen.m + 1>>

\* C6: when the source ends after bytes of an incomplete sequence were
\* pulled for the next character, the decoder yields a decode error for
\* that tail.
C6_TruncatedTailIsError ==
    [][(cur.kind = "pending" /\ bytes # <<>> /\ pos = Len(source))
       => cur'.kind = "Utf8Error"]_vars

\* C7: when the input ends in bytes that are not valid UTF-8 and no error
\* was reported before them, parse returns a decode failure (IoError of
\* kind InvalidData). At the end of input, bytes holds the bytes pulled
\* for the next character that never validated.
C7_InvalidTailIsDecodeFailure ==
    (pc = "done" /\ cur.kind = "end" /\ bytes # <<>>)
        => (result.kind = "IoError" /\ result.err = "InvalidData")

\* C8: decoding the encoding of N scalar values yields exactly these N
\* characters in order and no error, then ends; whenever a call has returned
\* the i-th character, exactly the bytes of the first i characters have
\* been pulled.
C8_RoundTrip ==
    scalars # <<>> =>
        /\ Len(items) <= Len(scalars)
        /\ \A j \in 1..Len(items) :
               items[j].kind = "char" /\ items[j].ch = scalars[j]
        /\ cur.kind # "pending" =>
               pos = Len(Encode(SubSeq(scalars, 1, Len(items))))
        /\ cur.kind = "end" => Len(items) = Len(scalars)

C8_Witness ==
    /\ cur.kind = "end"
    /\ Len(items) = Len(scalars)
    /\ Len(scalars) >= 2
    /\ \E j \in 1..Len(scalars) : scalars[j] >= 65536
    /\ \E j \in 1..Len(scalars) : scalars[j] \in 128..2047

\* C9: in the decoder's sequence an error item is the last item.
C9_ErrorIsLast ==
    \A j \in 1..(Len(items) - 1) : items[j].kind = "char"

\* C10: when the input ends, parse returns success if the obligation stack
\* is exactly <<Root>>, and the syntax error "Unexpected end of input"
\* otherwise.
C10_EndOfInput ==
    [][(pc = "run" /\ cur'.kind = "end") =>
        /\ pc' = "done"
        /\ IF state_stack = <<"Root">>
           THEN result' = Ok
           ELSE /\ result'.kind = "ParseError"
                /\ result'.msg = "Unexpected end of input"]_vars

C10_Witness ==
    /\ pc = "done" /\ cur.kind = "end"
    /\ result = Ok
    /\ state_stack = <<>>
    /\ DOT \in {string_buffer[j] : j \in 1..Len(string_buffer)}

\* the obligation on top of the stack ("" when the stack is empty)
Top == IF state_stack = <<>> THEN "" ELSE state_stack[Len(state_stack)]

\* C11: when one of the first three non-whitespace characters outside
\* comments is not the expected letter of p, k, g, parse returns a syntax
\* error raised at that character, with that character's position (line
\* k+1, column m+1 after k newlines and m further characters), and examines
\* no later character.
C11_KeywordMismatch ==
    [][(/\ pc = "run"
        /\ cur'.kind = "char"
        /\ ~is_whitespace(cur'.ch)
        /\ \/ Top = "PkgP" /\ cur'.ch \notin {CH_p, HASH}
           \/ Top = "PkgK" /\ cur'.ch # CH_k
           \/ Top = "PkgG" /\ cur'.ch # CH_g)
       => /\ pc' = "done"
          /\ result'.kind = "ParseError"
          /\ result'.pos = <<seen.k + 1, seen.m + 1>>]_vars

\* C12: with Comment on top, a character other than '\n' leaves the stack
\* and the accumulator (and the line) unchanged and raises nothing; '\n' pops
\* exactly the Comment, and leaves the position at column 1 of the next
\* line whatever the comment held, so what follows does not depend on the
\* comment's text.
C12_CommentFrame ==
    [][(pc = "run" /\ Top = "Comment" /\ cur'.kind = "char") =>
        /\ pc' = "run"
        /\ result' = NoResult
        /\ string_buffer' = string_buffer
        /\ IF cur'.ch = NL
           THEN /\ state_stack' = SubSeq(state_stack, 1, Len(state_stack) - 1)
                /\ line' = line + 1
                /\ column' = 1
           ELSE /\ state_stack' = state_stack
                /\ line' = line]_vars

C12_Witness ==
    /\ pc = "run" /\ Top = "Comment"
    /\ cur.kind = "char" /\ cur.ch = HASH
    /\ column >= 3

\* C13: the stack is not empty when a character is to be dispatched nor at
\* the final pop, and parse never returns InvalidState.
C13_NeverInvalidState ==
    /\ result.kind # "InvalidState"
    /\ pc = "run" => state_stack # <<>>

C13_Witness ==
    /\ pc = "done" /\ cur.kind = "end"
    /\ result.kind = "ParseError"
    /\ state_stack = <<"Root", "Semi", "OptionalPkgNameDot">>

\* C14: the first error ends the parse: no step is taken once parse has a
\* result, an error item of the decoder is returned at once as IoError
\* without a change of the stack or the accumulator, and a result is only
\* ever set together with the return.
C14_FirstErrorEnds ==
    [][/\ result = NoResult
       /\ cur'.kind \in {"IoError", "Utf8Error"} =>
            /\ pc' = "done"
            /\ result'.kind = "IoError"
            /\ state_stack' = state_stack
            /\ string_buffer' = string_buffer
       /\ result' # NoResult => pc' = "done"]_vars

C14_Witness ==
    /\ pc = "done" /\ cur.kind = "char"
    /\ result.kind = "ParseError"
    /\ pos < MaxPulls

\* C15: with PkgIdentifier on top and a segment begun, a character that is
\* not alphanumeric (whitespace included) ends the accumulation of that
\* segment: the obligation does not stay on top with the same accumulator.
C15_NonAlnumEndsSegment ==
    [][(/\ pc = "run" /\ Top = "PkgIdentifier"
        /\ string_buffer # <<>>
        /\ string_buffer[Len(string_buffer)] # DOT
        /\ cur'.kind = "char"
        /\ ~is_alphanumeric(cur'.ch))
       => ~(pc' = "run" /\ state_stack' = state_stack
                        /\ string_buffer' = string_buffer)]_vars

\* C16: parse returns success only if p, k, g came adjacent and at least one
\* whitespace character separated them from the identifier.
C16_KeywordSeparated == result = Ok => gram.kw = "ok"

\* C17: a whitespace character never raises an error and leaves the
\* accumulator unchanged; other than '\n' it changes the column only, '\n'
\* changes line and column and pops a Comment that is on top.
C17_WhitespaceFrame ==
    [][(pc = "run" /\ cur'.kind = "char" /\ is_whitespace(cur'.ch)) =>
        /\ pc' = "run"
        /\ result' = NoResult
        /\ string_buffer' = string_buffer
        /\ IF cur'.ch = NL
           THEN /\ line' = line + 1
                /\ column' = 1
                /\ state_stack' = IF Top = "Comment"
                                  THEN SubSeq(state_stack, 1, Len(state_stack) - 1)
                                  ELSE state_stack
           ELSE /\ line' = line
                /\ column' = column + 1
                /\ state_stack' = state_stack]_vars

C17_Witness ==
    /\ pc = "run" /\ Top = "PkgIdentifier"
    /\ string_buffer # <<>>
    /\ cur.kind = "char" /\ cur.ch = SPACE

\* C18: the stack is a bottom-up prefix of the initial seed with at most one
\* extra obligation on top, Comment above PkgP or PkgIdentifier above
\* OptionalPkgNameDot; it never holds more than 8 obligations.
InitialSeed == <<"Root", "Semi", "OptionalPkgNameDot", "PkgIdentifier",
                 "PkgG", "PkgK", "PkgP">>

C18_StackShape ==
    /\ Len(state_stack) <= 8
    /\ \E n \in 0..7 :
          \/ state_stack = SubSeq(InitialSeed, 1, n)
          \/ n = 7 /\ state_stack = Append(InitialSeed, "Comment")
          \/ n = 3 /\ state_stack = Append(SubSeq(InitialSeed, 1, 3),
                                           "PkgIdentifier")

C18_Witness ==
    /\ pc = "run" /\ Top = "PkgIdentifier"
    /\ Len(string_buffer) >= 3
    /\ string_buffer[Len(string_buffer)] = DOT
    /\ string_buffer[Len(string_buffer) - 1] = DOT

\* C19: once the shutdown signal has fired, watch_files returns; the
\* receiver and the watcher are dropped before a join of the worker thread.
C19_ReturnsAfterSignal ==
    /\ [](watch.task \in {"join", "returned"} /\ watch.handle
            => watch.rx = "dropped" /\ watch.watcher = "dropped")
    /\ (watch.sig ~> watch.task = "returned")

C19_Witness ==
    /\ watch.task = "returned" /\ watch.sig
    /\ watch.handle /\ watch.thread = "exit"
    /\ watch.events > 0
    /\ watch.result = "Ok"

===========================================================================
